---- MODULE Spec2Model ----
(***************************************************************************)
(* Model of src/SubjectiveByBitP2PDataSource.py:                           *)
(*   - SubjectiveByBitP2PDataSource.fetch(), one instance, run repeatedly  *)
(*     against one target directory (specification Spec);                  *)
(*   - get_bybit_p2p_opportunities(), applied to the possible responses    *)
(*     of the HTTP request (specification SpecP2P).                        *)
(***************************************************************************)
EXTENDS Integers, Sequences, FiniteSets, TLC

(* ---------------------------- bounds ---------------------------------- *)
\* number of fetch() calls made on the instance
MaxRuns == 2
\* largest elapsed time of one loop step, in clock ticks
MaxElapsed == 1
\* longest items list carried by a response
MaxItems == 2

(* ------------------------- fetch(): state ----------------------------- *)
VARIABLES
    total_items,            \* self._total_items
    processed_items,        \* self._processed_items
    total_processing_time,  \* self._total_processing_time (ticks)
    fetch_completed,        \* self._fetch_completed
    progress_callback,      \* TRUE iff self.progress_callback is set
    dirExists,              \* os.path.exists(target_directory)
    dest,                   \* state of target_directory/<identifier>
    pc,                     \* "idle": not inside fetch(); "loop": in the for loop
    repos,                  \* local variable repos of the running fetch()
    idx,                    \* number of loop iterations done in this run
    runs,                   \* number of fetch() calls started so far
    log,                    \* observation of the current/last run
    req                     \* one call of get_bybit_p2p_opportunities

vars == << total_items, processed_items, total_processing_time,
           fetch_completed, progress_callback, dirExists, dest, pc, repos,
           idx, runs, log, req >>

fetchVars == << total_items, processed_items, total_processing_time,
                fetch_completed, progress_callback, dirExists, dest, pc,
                repos, idx, runs, log >>

\* the identifiers the listing may name
Repos == {"Repo1", "Repo2", "Repo3"}

\* what os.path.exists / os.listdir can tell about a destination
DestStates == {"absent", "empty", "nonempty"}

RECURSIVE NoDup(_)
NoDup(s) ==
    IF Len(s) <= 1 THEN TRUE
    ELSE /\ \A i \in 2..Len(s) : s[i] # s[1]
         /\ NoDup(Tail(s))

\* the values _get_repositories() may return: repository names are unique
\* within a region; <<"Repo1","Repo2","Repo3">> is the value of the stub
Listings ==
    { s \in UNION { [1..n -> Repos] : n \in 0..Cardinality(Repos) } : NoDup(s) }

\* the counters of the instance, as one record
Counters ==
    [ total_items |-> total_items,
      processed_items |-> processed_items,
      total_processing_time |-> total_processing_time,
      fetch_completed |-> fetch_completed ]

\* the identifiers whose clone failed in the run observed by log
Failed == { repos[i] : i \in { j \in 1..Len(log.outcomes) : log.outcomes[j] = "failed" } }

\* the observation at the start of a run that will list `listing`:
\*   pre        processed_items when fetch() was entered
\*   dirExisted os.path.exists(target_directory) when fetch() was entered
\*   mkdirs     calls of os.makedirs; listed: _get_repositories was called
\*   clones     identifiers passed to git clone, in order
\*   calls      <<total_count, processed_count>> of each progress callback
\*   outcomes   "skipped" / "cloned" / "failed" per loop iteration
\*   seen       the state of the destination found by each loop iteration
\*   repeat     the preceding call completed and listed the same identifiers
\*   prevFailed the identifiers whose clone failed in that preceding call
NewLog(listing) ==
    [ last |-> "none", pre |-> processed_items, dirExisted |-> dirExists,
      mkdirs |-> 0, listed |-> FALSE, clones |-> << >>, calls |-> << >>,
      outcomes |-> << >>, seen |-> << >>,
      repeat |-> (log.last = "completed" /\ repos = listing),
      prevFailed |-> IF log.last = "completed" /\ repos = listing
                     THEN Failed ELSE {} ]

EmptyLog ==
    [ last |-> "none", pre |-> 0, dirExisted |-> dirExists,
      mkdirs |-> 0, listed |-> FALSE, clones |-> << >>, calls |-> << >>,
      outcomes |-> << >>, seen |-> << >>, repeat |-> FALSE,
      prevFailed |-> {} ]

\* no call of get_bybit_p2p_opportunities has been made
EmptyReq ==
    [ pc |-> "none", kind |-> "none", has_ret_code |-> FALSE, ret_code |-> 0,
      result |-> "missing", items_kind |-> "missing", items |-> << >>,
      returned |-> "none", value |-> << >> ]

Init ==
    /\ total_items = 0
    /\ processed_items = 0
    /\ total_processing_time = 0
    /\ fetch_completed = FALSE
    /\ progress_callback \in BOOLEAN
    /\ dirExists \in BOOLEAN
    /\ dest \in [Repos -> DestStates]
    /\ (~dirExists => \A r \in Repos : dest[r] = "absent")
    /\ pc = "idle"
    /\ repos = << >>
    /\ idx = 0
    /\ runs = 0
    /\ log = EmptyLog
    /\ req = EmptyReq

(* ------------------------ fetch(): operations ------------------------- *)

\* line 100: the directory is created only when it does not exist
NeedsMakedirsAlways(exists) == TRUE
NeedsMakedirs(exists) == ~exists

\* line 114: os.path.exists(dest_path) and os.listdir(dest_path)
ShouldSkipEmpty(d) == d = "empty"
ShouldSkip(d) == d = "nonempty"

\* lines 119-120: results of subprocess.run(..., check=True):
\* "cloned" (exit 0) or "failed" (CalledProcessError, non-zero exit)
CloneOutcomes == {"cloned", "failed"}

\* line 121: the except clause catches CalledProcessError
CaughtNothing(o) == FALSE
Caught(o) == o = "failed"

\* the destination after the clone: a successful clone leaves a populated
\* directory; a failed one leaves what was there, or a partial directory
\* when the tool was killed before it could clean up
AfterClone(d, o) ==
    IF o = "cloned" THEN {"nonempty"} ELSE {d, "nonempty"}

\* line 128: the accessors of the base class, read through the fields
total_to_process == total_items
total_processed == processed_items

\* lines 93-107, taken when os.makedirs raises
FetchSetupFails ==
    /\ pc = "idle"
    /\ runs < MaxRuns
    /\ NeedsMakedirs(dirExists)
    /\ runs' = runs + 1
    /\ log' = [ NewLog(<< >>) EXCEPT !.last = "raised", !.mkdirs = 1,
                                     !.repeat = FALSE, !.prevFailed = {} ]
    /\ UNCHANGED << total_items, processed_items, total_processing_time,
                    fetch_completed, progress_callback, dirExists, dest,
                    pc, repos, idx, req >>

\* lines 93-107: directory check, listing, total_items
FetchStart ==
    /\ pc = "idle"
    /\ runs < MaxRuns
    /\ \E listing \in Listings :
        /\ runs' = runs + 1
        /\ dirExists' = TRUE
        /\ repos' = listing
        /\ total_items' = Len(listing)
        /\ idx' = 0
        /\ pc' = "loop"
        /\ log' = [ NewLog(listing) EXCEPT
                      !.last = "running",
                      !.mkdirs = IF NeedsMakedirs(dirExists) THEN 1 ELSE 0,
                      !.listed = TRUE ]
        /\ UNCHANGED << processed_items, total_processing_time,
                        fetch_completed, progress_callback, dest, req >>

\* lines 109-128: one iteration of the for loop
Step ==
    /\ pc = "loop"
    /\ idx < Len(repos)
    /\ LET repo == repos[idx + 1]
           d == dest[repo]
       IN
       IF ShouldSkip(d)
       THEN \E elapsed \in 0..MaxElapsed :
            /\ UNCHANGED << total_items, fetch_completed, progress_callback,
                            dirExists, dest, pc, repos, runs, req >>
            /\ total_processing_time' = total_processing_time + elapsed
            /\ processed_items' = processed_items + 1
            /\ idx' = idx + 1
            /\ log' = [ log EXCEPT
                          !.outcomes = Append(@, "skipped"),
                          !.seen = Append(@, d),
                          !.calls = IF progress_callback
                                    THEN Append(@, << total_to_process',
                                                      total_processed' >>)
                                    ELSE @ ]
       ELSE \E o \in CloneOutcomes, elapsed \in 0..MaxElapsed :
            \E after \in AfterClone(d, o) :
            /\ UNCHANGED << total_items, fetch_completed, progress_callback,
                            dirExists, repos, runs, req >>
            /\ dest' = [ dest EXCEPT ![repo] = after ]
            /\ IF o = "cloned" \/ Caught(o)
               THEN /\ total_processing_time' = total_processing_time + elapsed
                    /\ processed_items' = processed_items + 1
                    /\ idx' = idx + 1
                    /\ pc' = pc
                    /\ log' = [ log EXCEPT
                                  !.outcomes = Append(@, o),
                                  !.seen = Append(@, d),
                                          !.clones = Append(@, repo),
                                  !.calls = IF progress_callback
                                            THEN Append(@, << total_to_process',
                                                              total_processed' >>)
                                            ELSE @ ]
               ELSE \* the exception leaves fetch()
                    /\ pc' = "idle"
                    /\ log' = [ log EXCEPT
                                  !.last = "raised",
                                  !.outcomes = Append(@, o),
                                  !.seen = Append(@, d),
                                          !.clones = Append(@, repo) ]
                    /\ UNCHANGED << total_processing_time, processed_items, idx >>

\* a variant of lines 129-130 with the assignment inside the loop body
FetchFinishInLoop ==
    /\ pc = "loop"
    /\ idx = Len(repos)
    /\ fetch_completed' = (fetch_completed \/ Len(repos) > 0)
    /\ pc' = "idle"
    /\ log' = [ log EXCEPT !.last = "completed" ]
    /\ UNCHANGED << total_items, processed_items, total_processing_time,
                    progress_callback, dirExists, dest, repos, idx, runs,
                    req >>

\* lines 129-130: the loop is exhausted
FetchFinish ==
    /\ pc = "loop"
    /\ idx = Len(repos)
    /\ fetch_completed' = TRUE
    /\ pc' = "idle"
    /\ log' = [ log EXCEPT !.last = "completed" ]
    /\ UNCHANGED << total_items, processed_items, total_processing_time,
                    progress_callback, dirExists, dest, repos, idx, runs,
                    req >>

Next ==
    \/ FetchSetupFails
    \/ FetchStart
    \/ Step
    \/ FetchFinish

Spec == Init /\ [][Next]_vars

(* ------------------- get_bybit_p2p_opportunities ---------------------- *)

\* the entries an items list may hold (opaque opportunity objects)
Items == {"ad1", "ad2", "ad3"}

ItemLists == UNION { [1..n -> Items] : n \in 0..MaxItems }

\* what requests.get / raise_for_status / response.json can deliver:
\*   transport   requests.get raises a RequestException (line 28)
\*   http_error  raise_for_status raises HTTPError (line 29)
\*   bad_json    the body is not JSON (line 31)
\*   json        the body is a JSON object; its members ret_code, result and
\*               result.items may be missing, null, or present
Responses ==
    { [ EmptyReq EXCEPT !.pc = "pending", !.kind = k ] :
        k \in {"transport", "http_error", "bad_json"} }
    \cup
    { [ EmptyReq EXCEPT !.pc = "pending", !.kind = "json",
                        !.has_ret_code = TRUE, !.ret_code = c,
                        !.result = r ] :
        c \in {0, 10001}, r \in {"missing", "null"} }
    \cup
    { [ EmptyReq EXCEPT !.pc = "pending", !.kind = "json",
                        !.result = r ] :
        r \in {"missing", "null"} }
    \cup
    { [ EmptyReq EXCEPT !.pc = "pending", !.kind = "json",
                        !.has_ret_code = h, !.ret_code = c,
                        !.result = "object", !.items_kind = ik ] :
        h \in BOOLEAN, c \in {0, 10001}, ik \in {"missing", "null"} }
    \cup
    { [ EmptyReq EXCEPT !.pc = "pending", !.kind = "json",
                        !.has_ret_code = h, !.ret_code = c,
                        !.result = "object", !.items_kind = "list",
                        !.items = l ] :
        h \in BOOLEAN, c \in {0, 10001}, l \in ItemLists }

ReturnList(l) == [ returned |-> "list", value |-> l ]
ReturnNone == [ returned |-> "None", value |-> << >> ]
Raise == [ returned |-> "raise", value |-> << >> ]

\* line 33: data.get("ret_code") == 0
RetCodeOk(r) == r.has_ret_code /\ r.ret_code = 0

\* line 34: data.get("result", {}).get("items", []); dict.get returns the
\* default only when the key is missing, a null member is returned as None
GetItems(r) ==
    IF r.result = "missing" THEN ReturnList(<< >>)
    ELSE IF r.result = "null" THEN Raise
    ELSE IF r.items_kind = "missing" THEN ReturnList(<< >>)
    ELSE IF r.items_kind = "null" THEN ReturnNone
    ELSE ReturnList(r.items)

\* lines 27-42: the possible results of the call for response r.  An
\* undecodable body raises requests.exceptions.JSONDecodeError, which is a
\* RequestException and is caught at line 40.
get_bybit_p2p_opportunities(r) ==
    IF r.kind \in {"transport", "http_error"} THEN { ReturnList(<< >>) }
    ELSE IF r.kind = "bad_json" THEN { ReturnList(<< >>) }
    ELSE IF RetCodeOk(r) THEN { GetItems(r) }
    ELSE { ReturnList(<< >>) }

\* the function is called and the request is answered
P2PRequest ==
    /\ req.pc \in {"none", "returned"}
    /\ req' \in Responses
    /\ UNCHANGED fetchVars

\* the function returns or raises
P2PReturn ==
    /\ req.pc = "pending"
    /\ \E out \in get_bybit_p2p_opportunities(req) :
        req' = [ req EXCEPT !.pc = "returned",
                            !.returned = out.returned,
                            !.value = out.value ]
    /\ UNCHANGED fetchVars

InitP2P ==
    /\ Init
    /\ progress_callback = FALSE
    /\ dirExists = FALSE

NextP2P ==
    \/ P2PRequest
    \/ P2PReturn

SpecP2P == InitP2P /\ [][NextP2P]_vars

(* ----------------------------- properties ------------------------------ *)

\* a run is being observed: fetch() is in its loop or has returned normally
InRun == log.last \in {"running", "completed"}

\* the identifiers of the first n loop iterations that were not skipped
RECURSIVE Cloned(_)
Cloned(n) ==
    IF n = 0 THEN << >>
    ELSE IF log.outcomes[n] = "skipped" THEN Cloned(n - 1)
    ELSE Append(Cloned(n - 1), repos[n])

\* C1: every run of fetch() over N identifiers, also a run on an instance
\* that completed an earlier run, ends with processed_items = N and
\* fetch_completed true, whatever the outcome of each identifier.
C1_ProcessedEqualsN ==
    log.last = "completed" =>
        /\ processed_items = Len(repos)
        /\ fetch_completed

\* C2 (as stated): a run that repeats the preceding run's listing over the
\* same directory performs no clone, whatever happened to the clones of the
\* preceding run.
C2_SecondRunNoClone ==
    (log.last = "completed" /\ log.repeat) => log.clones = << >>

\* C2 (amended): a run that repeats the preceding run's listing over the
\* same directory clones only identifiers whose clone failed in the
\* preceding run; it performs no clone when none failed.
C2_SecondRunClonesOnlyFailed ==
    (InRun /\ log.repeat) =>
        /\ \A i \in 1..Len(log.clones) : log.clones[i] \in log.prevFailed
        /\ (log.prevFailed = {} => log.clones = << >>)

\* C2 witness: a repeated run over three identifiers has completed, one clone
\* failed in the preceding run, and exactly that identifier was cloned again.
C2_Witness ==
    /\ log.last = "completed"
    /\ log.repeat
    /\ Len(repos) = 3
    /\ log.prevFailed = {repos[2]}
    /\ log.clones = << repos[2] >>
    /\ log.outcomes = << "skipped", "cloned", "skipped" >>

C4_CallbackCounts ==
    progress_callback =>
        /\ Len(log.calls) = Len(log.outcomes)
        /\ \A k \in 1..Len(log.calls) : log.calls[k] = << Len(repos), k >>

\* C5: an identifier is skipped exactly when its destination is found
\* non-empty, otherwise it is cloned exactly once, in listing order; for the
\* listing [Repo1, Repo2] with Repo1 non-empty and Repo2 absent there is one
\* clone, of Repo2, and processed_items ends at 2.
C5_SkipOrClone ==
    /\ Len(log.seen) = Len(log.outcomes)
    /\ \A i \in 1..Len(log.seen) :
           (log.seen[i] = "nonempty") <=> (log.outcomes[i] = "skipped")
    /\ log.clones = Cloned(Len(log.outcomes))
    /\ ( /\ log.last = "completed"
         /\ repos = << "Repo1", "Repo2" >>
         /\ log.seen = << "nonempty", "absent" >> )
       => ( /\ log.clones = << "Repo2" >>
            /\ processed_items = 2 )

\* C6: when the listing is empty, total_items is 0, nothing is cloned, the
\* progress callback is not called, processed_items keeps its value and the
\* run ends with fetch_completed true.
C6_EmptyListing ==
    (log.listed /\ repos = << >>) =>
        /\ InRun
        /\ total_items = 0
        /\ log.clones = << >>
        /\ log.calls = << >>
        /\ processed_items = log.pre
        /\ (log.last = "running" => pc = "loop" /\ idx = Len(repos))
        /\ (log.last = "completed" => fetch_completed)

\* C6 witness: a run with a registered callback on an instance that has
\* processed identifiers before listed nothing and completed.
C6_Witness ==
    /\ log.last = "completed"
    /\ log.listed
    /\ repos = << >>
    /\ progress_callback
    /\ processed_items > 0

\* C7: fetch_completed is false from construction on and in every state in
\* which a run still has an identifier to process, also in a later run.
C7_NotCompletedWhileRunning ==
    /\ (runs = 0 => ~fetch_completed)
    /\ ((pc = "loop" /\ idx < Len(repos)) => ~fetch_completed)

\* C8: when the target directory is missing and os.makedirs fails, fetch()
\* raises before the listing: the counters keep their values and nothing is
\* cloned or reported; when the directory exists, makedirs is not called.
C8_SetupFailure ==
    /\ [] ( /\ (log.last = "raised" =>
                  /\ pc = "idle"
                  /\ ~log.dirExisted
                  /\ log.mkdirs = 1
                  /\ ~log.listed
                  /\ log.clones = << >>
                  /\ log.calls = << >>
                  /\ processed_items = log.pre)
            /\ (log.dirExisted => log.mkdirs = 0) )
    /\ [][ (log' # log /\ log'.last = "raised") => Counters' = Counters ]_vars

\* C8 witness: the second call of fetch() has raised in the setup.
C8_Witness ==
    /\ log.last = "raised"
    /\ runs = 2
    /\ ~dirExists

\* C9: get_bybit_p2p_opportunities always returns a list: the empty list for
\* a transport failure, an HTTP error status or a ret_code other than 0, and
\* result.items (the empty list when result or items is missing) for
\* ret_code 0.
C9_AlwaysList ==
    req.pc = "returned" =>
        /\ req.returned = "list"
        /\ (req.kind \in {"transport", "http_error"} => req.value = << >>)
        /\ ((req.kind = "json" /\ ~RetCodeOk(req)) => req.value = << >>)
        /\ ((req.kind = "json" /\ RetCodeOk(req)) =>
               req.value = IF req.result = "object" /\ req.items_kind = "list"
                           THEN req.items ELSE << >>)

\* C10: once a run has set total_items, 0 <= processed_items <= total_items,
\* and within a run processed_items is the number of identifiers of the
\* current listing already attempted; processed_items never decreases.
C10_CounterInvariant ==
    /\ [] ( log.listed =>
              /\ 0 <= processed_items
              /\ processed_items <= total_items
              /\ processed_items = Len(log.outcomes) )
    /\ [][ processed_items' >= processed_items ]_vars

====
